---- MODULE Spec2Model ----
(***************************************************************************)
(* rs-lru: an intrusive doubly-linked list (list.rs) and the two caches    *)
(* built on it, LRUCache (lru.rs) and LRUkCache (lru_k.rs).                *)
(*                                                                         *)
(* The heap is modelled explicitly: a node is an address in Nodes with its *)
(* next/prev links and its element (key, value, freq); a list is a         *)
(* (head, tail, len) triple; the hash index is a set of <<key handle,      *)
(* node handle>> entries whose key is read through the key handle, as      *)
(* KeyRef/KeyNode do.  Every source function is an operator from a memory  *)
(* record m = [node, lists, map, live, fault] to the memory it leaves.     *)
(***************************************************************************)
EXTENDS Integers, Sequences, FiniteSets, TLC

\* ---- bounds of the model
MaxCap == 2
MaxFreq == 2

\* ---- values
Null == 0
None == 0
\* one key more than the largest capacity, so that a full cache meets a new key
Keys == 1..(MaxCap + 1)
\* V is opaque to the caches: two values tell a replaced value from the new one
Vals == {1, 2}
\* node addresses
Nodes == 1..(MaxCap + 1)
ListNames == {"list", "fcfo", "lru"}

VARIABLES
  kind,   \* which cache was constructed: "lru" (LRUCache) or "lruk" (LRUkCache)
  cap,    \* LRUCache.cap / LRUkCache.cap
  freq,   \* LRUkCache.freq, the promotion threshold K
  node,   \* heap: address -> Node {next, prev, element {key, value, freq}}
  lists,  \* "list" = LRUCache.list, "fcfo"/"lru" = LRUkCache.fcfo/.lru
  map,    \* the HashMap: set of <<KeyRef handle, node handle>>
  live,   \* addresses currently allocated (Box::leak'ed and not yet from_raw'ed)
  fault,  \* "none", or the panic / undefined behaviour the last call ran into
  last,   \* the call that returned last (none while a call is running):
          \* [op, l, k, v, ret, out, f], out = the
          \* keys that were resident when it was entered and are not any more,
          \* f = the frequency counter of k's item when it was entered, l = the
          \* list it was made on when it is a call of List
  pc,     \* the position inside a call that has not returned yet: [at, k, v, n,
          \* was], at = "idle" between calls
  written,\* history: for each resident key the value most recently inserted
  order,  \* history (LRUCache): resident keys, most recently accessed first
  seen    \* history (LRUkCache): the resident keys not yet promoted, in the
          \* order they were inserted as new keys, oldest first

vars == <<kind, cap, freq, node, lists, map, live, fault, last, pc, written, order, seen>>

\* ------------------------------------------------------------------------
\* list.rs
\* ------------------------------------------------------------------------

\* Node::new
Node_new(k, v) == [next |-> Null, prev |-> Null, key |-> k, value |-> v, freq |-> 0]

\* List::new
List_new == [head |-> Null, tail |-> Null, len |-> 0]

\* Box::leak(Box::new(..)): the allocator hands out an address that is not live.
\* No operation orders addresses or compares two that are both live and
\* distinct as equal, so one choice stands for all: the address numbered like
\* the key when it is free, the lowest free address otherwise.
Box_new(m, k) ==
  IF k \in Nodes \ m.live THEN k
  ELSE CHOOSE n \in Nodes \ m.live : \A o \in Nodes \ m.live : n <= o

\* the call runs into a panic or into undefined behaviour; the first one is kept
Fault(m, what) == IF m.fault = "none" THEN [m EXCEPT !.fault = what] ELSE m

\* Box::from_raw(n) dropped: the address is released
Box_drop(m, n) ==
  [(IF n \in m.live THEN m ELSE Fault(m, "double free"))
     EXCEPT !.live = @ \ {n}, !.node[n] = Node_new(0, 0)]

\* a dereference of handle n (as_ref / as_mut): undefined if n was released
Deref(m, n) == IF n \in m.live THEN m ELSE Fault(m, "use after free")

\* self.len -= 1 on a usize
DecLen(m, l) ==
  IF m.lists[l].len = 0 THEN Fault(m, "len underflow")
  ELSE [m EXCEPT !.lists[l].len = @ - 1]

is_empty(m, l) ==
  m.lists[l].len = 0 /\ m.lists[l].head = Null /\ m.lists[l].tail = Null

begin_node(m, l) == m.lists[l].head

end_node(m, l) == m.lists[l].tail

\* front()/back(): the boundary node whose element is borrowed, Null for None
front(m, l) == begin_node(m, l)

back(m, l) == end_node(m, l)

check_tail(m, l) ==
  IF m.lists[l].tail = Null
    THEN IF m.lists[l].head # Null THEN [m EXCEPT !.lists[l].head = Null] ELSE m
    ELSE [Deref(m, m.lists[l].tail) EXCEPT !.node[m.lists[l].tail].next = Null]

check_head(m, l) ==
  IF m.lists[l].head = Null
    THEN IF m.lists[l].tail # Null THEN [m EXCEPT !.lists[l].tail = Null] ELSE m
    ELSE [Deref(m, m.lists[l].head) EXCEPT !.node[m.lists[l].head].prev = Null]

detach(m, l, n) ==
  LET m0 == Deref(m, n)
      a == IF m0.node[n].prev = Null
             THEN check_head([m0 EXCEPT !.lists[l].head = m0.node[n].next], l)
             ELSE [Deref(m0, m0.node[n].prev)
                     EXCEPT !.node[m0.node[n].prev].next = m0.node[n].next]
  IN IF a.node[n].next = Null
       THEN check_tail([a EXCEPT !.lists[l].tail = a.node[n].prev], l)
       ELSE [Deref(a, a.node[n].next) EXCEPT !.node[a.node[n].next].prev = a.node[n].prev]

push_back(m, l, k, v) ==
  IF Nodes \ m.live = {} THEN Fault(m, "out of memory") ELSE
  LET n == Box_new(m, k)
      m1 == [m EXCEPT !.live = @ \cup {n}, !.node[n] = Node_new(k, v)]
      t == m1.lists[l].tail
  IN IF t = Null
       THEN IF is_empty(m1, l)
              THEN [m1 EXCEPT !.lists[l].head = n, !.lists[l].tail = n,
                              !.lists[l].len = @ + 1]
              ELSE Fault(m1, "assert is_empty")
       ELSE [Deref(m1, t) EXCEPT !.node[n].prev = t, !.node[t].next = n,
                                 !.lists[l].tail = n, !.lists[l].len = @ + 1]

push_front(m, l, k, v) ==
  IF Nodes \ m.live = {} THEN Fault(m, "out of memory") ELSE
  LET n == Box_new(m, k)
      m1 == [m EXCEPT !.live = @ \cup {n}, !.node[n] = Node_new(k, v)]
      h == m1.lists[l].head
  IN IF h = Null
       THEN IF is_empty(m1, l)
              THEN [m1 EXCEPT !.lists[l].head = n, !.lists[l].tail = n,
                              !.lists[l].len = @ + 1]
              ELSE Fault(m1, "assert is_empty")
       ELSE [Deref(m1, h) EXCEPT !.node[n].next = h, !.node[h].prev = n,
                                 !.lists[l].head = n, !.lists[l].len = @ + 1]

\* pop_front without its call of check_head
pop_front_dangling(m, l) ==
  LET e == m.lists[l].head IN
  IF e # Null
    THEN LET m0 == Deref(m, e)
             m1 == Box_drop([m0 EXCEPT !.lists[l].head = m0.node[e].next], e)
         IN [m |-> DecLen(m1, l), ret |-> m0.node[e].value]
    ELSE [m |-> m, ret |-> None]

\* pop_front / pop_back give the memory left and ret, the value of the element
\* popped (None when the list has no head / tail)
pop_front(m, l) ==
  LET e == m.lists[l].head IN
  IF e # Null
    THEN LET m0 == Deref(m, e)
             m1 == Box_drop([m0 EXCEPT !.lists[l].head = m0.node[e].next], e)
         IN [m |-> DecLen(check_head(m1, l), l), ret |-> m0.node[e].value]
    ELSE [m |-> m, ret |-> None]

pop_back(m, l) ==
  LET e == m.lists[l].tail IN
  IF e # Null
    THEN LET m0 == Deref(m, e)
             m1 == Box_drop([m0 EXCEPT !.lists[l].tail = m0.node[e].prev], e)
         IN [m |-> DecLen(check_tail(m1, l), l), ret |-> m0.node[e].value]
    ELSE [m |-> m, ret |-> None]

splice_front_node(m, l, dst_node, src_node) ==
  IF dst_node = Null
    THEN [Deref(m, src_node) EXCEPT !.node[src_node].next = Null,
                                    !.node[src_node].prev = Null,
                                    !.lists[l].head = src_node,
                                    !.lists[l].tail = src_node]
    ELSE LET m0 == Deref(Deref(m, dst_node), src_node)
             dst_prev_node == m0.node[dst_node].prev
             m1 == [m0 EXCEPT !.node[src_node].next = dst_node,
                              !.node[src_node].prev = dst_prev_node,
                              !.node[dst_node].prev = src_node]
         IN IF dst_prev_node = Null
              THEN [m1 EXCEPT !.lists[l].head = src_node]
              ELSE [Deref(m1, dst_prev_node) EXCEPT !.node[dst_prev_node].next = src_node]

splice_back_node(m, l, dst_node, src_node) ==
  IF dst_node = Null
    THEN [Deref(m, src_node) EXCEPT !.node[src_node].next = Null,
                                    !.node[src_node].prev = Null,
                                    !.lists[l].head = src_node,
                                    !.lists[l].tail = src_node]
    ELSE LET m0 == Deref(Deref(m, dst_node), src_node)
             dst_next_node == m0.node[dst_node].next
             m1 == [m0 EXCEPT !.node[src_node].next = dst_next_node,
                              !.node[src_node].prev = dst_node,
                              !.node[dst_node].next = src_node]
         IN IF dst_next_node = Null
              THEN [m1 EXCEPT !.lists[l].tail = src_node]
              ELSE [Deref(m1, dst_next_node) EXCEPT !.node[dst_next_node].prev = src_node]

\* self = l, src = s; splice_back relinks into src (src.splice_back_node)
splice_back(m, l, dst_node, s, src_node) ==
  LET m1 == splice_back_node(detach(m, s, src_node), s, dst_node, src_node)
      m2 == DecLen(m1, s)
  IN [m2 EXCEPT !.lists[l].len = @ + 1]

\* mutant: the two len fields are left as they were
splice_front_keep_len(m, l, dst_node, s, src_node) ==
  splice_front_node(detach(m, s, src_node), l, dst_node, src_node)

splice_front(m, l, dst_node, s, src_node) ==
  LET m1 == splice_front_node(detach(m, s, src_node), l, dst_node, src_node)
      m2 == DecLen(m1, s)
  IN [m2 EXCEPT !.lists[l].len = @ + 1]

\* mutant: the node is always relinked at the head, whatever dst_node is
splice_self_front_head(m, l, dst_node, src_node) ==
  IF dst_node # Null /\ dst_node = src_node
    THEN m
    ELSE splice_front_node(detach(m, l, src_node), l,
                           begin_node(detach(m, l, src_node), l), src_node)

\* mutant: no early return when the node is already the destination
splice_self_front_always(m, l, dst_node, src_node) ==
  splice_front_node(detach(m, l, src_node), l, dst_node, src_node)

splice_self_front(m, l, dst_node, src_node) ==
  IF dst_node # Null /\ dst_node = src_node
    THEN m
    ELSE splice_front_node(detach(m, l, src_node), l, dst_node, src_node)

\* remove_node gives the memory left and ret, the value of the element removed
remove_node(m, l, n) ==
  LET m1 == DecLen(detach(m, l, n), l)
  IN [m |-> Box_drop(m1, n), ret |-> m.node[n].value]

\* ------------------------------------------------------------------------
\* the HashMap<KeyRef, NonNullNode> of both caches
\* ------------------------------------------------------------------------

\* the entries whose key, read through the entry's key handle, equals k
map_find(m, k) == {e \in m.map : m.node[e[1]].key = k}

\* HashMap::get: the node handle stored for k, Null for None
map_get(m, k) ==
  IF map_find(m, k) = {} THEN Null ELSE (CHOOSE e \in map_find(m, k) : TRUE)[2]

\* the memory after the key comparison of a lookup that found an entry
map_probe(m, k) ==
  IF map_find(m, k) = {} THEN m ELSE Deref(m, (CHOOSE e \in map_find(m, k) : TRUE)[1])

\* HashMap::remove: the memory left
map_remove(m, k) == [map_probe(m, k) EXCEPT !.map = @ \ map_find(m, k)]

\* HashMap::insert(KeyRef(n), n): an equal key keeps its entry's key handle.
\* n is what begin_node().unwrap() / end_node().expect(..) gave: they panic on
\* None, and nothing is inserted after a panic of the push before them.
map_insert(m, n) ==
  IF n = Null THEN Fault(m, "unwrap on None")
  ELSE IF m.fault # "none" THEN m
  ELSE LET old == map_find(m, m.node[n].key)
       IN IF old = {}
            THEN [m EXCEPT !.map = @ \cup {<<n, n>>}]
            ELSE [m EXCEPT !.map = (@ \ old) \cup {<<e[1], n>> : e \in old}]

\* ------------------------------------------------------------------------
\* lru.rs
\* ------------------------------------------------------------------------

\* mutant: an access that does not refresh the node's position
LRUCache_update_stale(m, n) == m

LRUCache_update(m, n) ==
  IF is_empty(m, "list") THEN m
  ELSE splice_self_front(m, "list", begin_node(m, "list"), n)

LRUCache_get(m, k) ==
  LET n == map_get(m, k) IN
  IF n # Null
    THEN LET m1 == Deref(LRUCache_update(map_probe(m, k), n), n)
         IN [m |-> m1, ret |-> m1.node[n].value]
    ELSE [m |-> m, ret |-> None]

\* mutant: the capacity test off by one (map.len() > cap)
LRUCache_insert_late(m, k, v) ==
  LET n == map_get(m, k) IN
  IF n # Null
    THEN LET m1 == Deref(LRUCache_update(map_probe(m, k), n), n)
         IN [m |-> [m1 EXCEPT !.node[n].value = v], ret |-> m1.node[n].value]
    ELSE LET e == back(m, "list")
             m1 == IF Cardinality(m.map) > cap
                     THEN pop_back(IF e # Null
                                     THEN map_remove(Deref(m, e), m.node[e].key)
                                     ELSE m, "list").m
                     ELSE m
             m2 == push_front(m1, "list", k, v)
         IN [m |-> map_insert(m2, begin_node(m2, "list")), ret |-> None]

LRUCache_insert(m, k, v) ==
  LET n == map_get(m, k) IN
  IF n # Null
    THEN LET m1 == Deref(LRUCache_update(map_probe(m, k), n), n)
         IN [m |-> [m1 EXCEPT !.node[n].value = v], ret |-> m1.node[n].value]
    ELSE LET e == back(m, "list")
             m1 == IF Cardinality(m.map) + 1 > cap
                     THEN pop_back(IF e # Null
                                     THEN map_remove(Deref(m, e), m.node[e].key)
                                     ELSE m, "list").m
                     ELSE m
             m2 == push_front(m1, "list", k, v)
         IN [m |-> map_insert(m2, begin_node(m2, "list")), ret |-> None]

LRUCache_remove(m, k) ==
  LET n == map_get(m, k) IN
  IF n # Null
    THEN remove_node(map_remove(m, k), "list", n)
    ELSE [m |-> m, ret |-> None]

LRUCache_is_emtpy(m) == m.map = {} /\ is_empty(m, "list")

\* ------------------------------------------------------------------------
\* lru_k.rs
\* ------------------------------------------------------------------------

\* mutant: an access to a promoted item counts too (freq += 1 before the test)
LRUkCache_update_counting(m, n) ==
  LET m0 == Deref(m, n) IN
  IF m0.node[n].freq >= freq
    THEN splice_self_front([m0 EXCEPT !.node[n].freq = @ + 1], "lru",
                           begin_node(m0, "lru"), n)
    ELSE LET m1 == [m0 EXCEPT !.node[n].freq = @ + 1]
         IN IF m1.node[n].freq >= freq
              THEN splice_front(m1, "lru", begin_node(m1, "lru"), "fcfo", n)
              ELSE m1

\* mutant: promotion one access late (item.freq > self.freq)
LRUkCache_update_late(m, n) ==
  LET m0 == Deref(m, n) IN
  IF m0.node[n].freq > freq
    THEN splice_self_front(m0, "lru", begin_node(m0, "lru"), n)
    ELSE LET m1 == [m0 EXCEPT !.node[n].freq = @ + 1]
         IN IF m1.node[n].freq > freq
              THEN splice_front(m1, "lru", begin_node(m1, "lru"), "fcfo", n)
              ELSE m1

\* mutant: the counter is raised but the item is never moved to the promoted list
LRUkCache_update_unmoved(m, n) ==
  LET m0 == Deref(m, n) IN
  IF m0.node[n].freq >= freq
    THEN m0
    ELSE [m0 EXCEPT !.node[n].freq = @ + 1]

LRUkCache_update(m, n) ==
  LET m0 == Deref(m, n) IN
  IF m0.node[n].freq >= freq
    THEN splice_self_front(m0, "lru", begin_node(m0, "lru"), n)
    ELSE LET m1 == [m0 EXCEPT !.node[n].freq = @ + 1]
         IN IF m1.node[n].freq >= freq
              THEN splice_front(m1, "lru", begin_node(m1, "lru"), "fcfo", n)
              ELSE m1

LRUkCache_len(m) == Cardinality(m.map)

\* mutant: the emptiness test inverted, the promoted list is drained first
LRUkCache_disuse_inverted(m) ==
  IF is_empty(m, "fcfo") \/ ~is_empty(m, "lru")
    THEN LET item == back(m, "lru") IN
         IF item = Null THEN m
         ELSE IF map_get(m, Deref(m, item).node[item].key) = Null THEN Deref(m, item)
         ELSE pop_back(map_remove(Deref(m, item), m.node[item].key), "lru").m
    ELSE LET item == front(m, "fcfo") IN
         IF item = Null THEN m
         ELSE IF map_get(m, Deref(m, item).node[item].key) = Null THEN Deref(m, item)
         ELSE pop_front(map_remove(Deref(m, item), m.node[item].key), "fcfo").m

\* every `?` of disuse returns early with what was done so far
LRUkCache_disuse(m) ==
  IF ~is_empty(m, "fcfo")
    THEN LET item == front(m, "fcfo") IN
         IF item = Null THEN m
         ELSE IF map_get(m, Deref(m, item).node[item].key) = Null THEN Deref(m, item)
         ELSE pop_front(map_remove(Deref(m, item), m.node[item].key), "fcfo").m
    ELSE LET item == back(m, "lru") IN
         IF item = Null THEN m
         ELSE IF map_get(m, Deref(m, item).node[item].key) = Null THEN Deref(m, item)
         ELSE pop_back(map_remove(Deref(m, item), m.node[item].key), "lru").m

\* mutant: a miss makes room as an insert would
LRUkCache_get_evicting(m, k) ==
  LET n == map_get(m, k) IN
  IF n # Null
    THEN LET m1 == Deref(LRUkCache_update(map_probe(m, k), n), n)
         IN [m |-> m1, ret |-> m1.node[n].value]
    ELSE [m |-> LRUkCache_disuse(m), ret |-> None]

LRUkCache_get(m, k) ==
  LET n == map_get(m, k) IN
  IF n # Null
    THEN LET m1 == Deref(LRUkCache_update(map_probe(m, k), n), n)
         IN [m |-> m1, ret |-> m1.node[n].value]
    ELSE [m |-> m, ret |-> None]

\* mutant: an insert of a resident key replaces the value without the access
LRUkCache_insert_no_access(m, k, v) ==
  LET n == map_get(m, k) IN
  IF n # Null
    THEN LET m1 == Deref(map_probe(m, k), n)
         IN [m |-> [m1 EXCEPT !.node[n].value = v], ret |-> m1.node[n].value]
    ELSE LET m1 == IF LRUkCache_len(m) + 1 > cap THEN LRUkCache_disuse(m) ELSE m
             m2 == push_back(m1, "fcfo", k, v)
         IN [m |-> map_insert(m2, end_node(m2, "fcfo")), ret |-> None]

\* mutant: an insert of a resident key returns the value it has just stored
LRUkCache_insert_ret_new(m, k, v) ==
  LET n == map_get(m, k) IN
  IF n # Null
    THEN LET m1 == Deref(map_probe(m, k), n)
         IN [m |-> LRUkCache_update([m1 EXCEPT !.node[n].value = v], n), ret |-> v]
    ELSE LET m1 == IF LRUkCache_len(m) + 1 > cap THEN LRUkCache_disuse(m) ELSE m
             m2 == push_back(m1, "fcfo", k, v)
         IN [m |-> map_insert(m2, end_node(m2, "fcfo")), ret |-> None]

\* mutant: a new key enters at the front of the probationary list
LRUkCache_insert_front(m, k, v) ==
  LET n == map_get(m, k) IN
  IF n # Null
    THEN LET m1 == Deref(map_probe(m, k), n)
         IN [m |-> LRUkCache_update([m1 EXCEPT !.node[n].value = v], n),
             ret |-> m1.node[n].value]
    ELSE LET m1 == IF LRUkCache_len(m) + 1 > cap THEN LRUkCache_disuse(m) ELSE m
             m2 == push_front(m1, "fcfo", k, v)
         IN [m |-> map_insert(m2, begin_node(m2, "fcfo")), ret |-> None]

LRUkCache_insert(m, k, v) ==
  LET n == map_get(m, k) IN
  IF n # Null
    THEN LET m1 == Deref(map_probe(m, k), n)
         IN [m |-> LRUkCache_update([m1 EXCEPT !.node[n].value = v], n),
             ret |-> m1.node[n].value]
    ELSE LET m1 == IF LRUkCache_len(m) + 1 > cap THEN LRUkCache_disuse(m) ELSE m
             m2 == push_back(m1, "fcfo", k, v)
         IN [m |-> map_insert(m2, end_node(m2, "fcfo")), ret |-> None]

\* mutant: the node is always taken out of the probationary list
LRUkCache_remove_fcfo(m, k) ==
  LET n == map_get(m, k) IN
  IF n = Null THEN [m |-> m, ret |-> None]
  ELSE remove_node(Deref(map_remove(m, k), n), "fcfo", n)

LRUkCache_remove(m, k) ==
  LET n == map_get(m, k) IN
  IF n = Null THEN [m |-> m, ret |-> None]
  ELSE LET m1 == Deref(map_remove(m, k), n) IN
       IF m1.node[n].freq >= freq
         THEN remove_node(m1, "lru", n)
         ELSE remove_node(m1, "fcfo", n)

\* mutant: only the probationary list is asked
LRUkCache_is_emtpy_fcfo(m) == is_empty(m, "fcfo")

LRUkCache_is_emtpy(m) == m.map = {} /\ is_empty(m, "fcfo") /\ is_empty(m, "lru")

\* ------------------------------------------------------------------------
\* the state machine: one constructed cache and the calls made on it
\* ------------------------------------------------------------------------

Mem == [node |-> node, lists |-> lists, map |-> map, live |-> live, fault |-> fault]

NoCall == [op |-> "new", l |-> "", k |-> 0, v |-> None, ret |-> None, out |-> {}, f |-> 0]

\* no call is running
Idle == [at |-> "idle", k |-> 0, v |-> None, n |-> Null, was |-> {}]

\* the keys with an index entry
Resident(m) == {m.node[e[1]].key : e \in m.map}

\* the memory right after construction: no node, empty index, empty lists
NewMem ==
  [node |-> [n \in Nodes |-> Node_new(0, 0)], lists |-> [l \in ListNames |-> List_new],
   map |-> {}, live |-> {}, fault |-> "none"]

\* LRUCache::with_capacity(c)
LRUCache_with_capacity(c) ==
  /\ kind = "lru" /\ cap = c /\ freq = 0
  /\ map = NewMem.map /\ lists = NewMem.lists
  /\ node = NewMem.node /\ live = NewMem.live /\ fault = NewMem.fault

\* LRUkCache::with_capacity_freq(c, f)
LRUkCache_with_capacity_freq(c, f) ==
  /\ kind = "lruk" /\ cap = c /\ freq = f
  /\ map = NewMem.map /\ lists = NewMem.lists
  /\ node = NewMem.node /\ live = NewMem.live /\ fault = NewMem.fault

\* a cache constructed with a capacity in caps (and a threshold in freqs)
InitWith(caps, freqs) ==
  /\ \/ \E c \in caps : LRUCache_with_capacity(c)
     \/ \E c \in caps, f \in freqs : LRUkCache_with_capacity_freq(c, f)
  /\ last = NoCall
  /\ pc = Idle
  /\ written = [k \in Keys |-> None]
  /\ order = <<>>
  /\ seen = <<>>

\* the caches of the data model: a positive capacity, a threshold of at least 1
Init == InitWith(1..MaxCap, 1..MaxFreq)

\* every capacity the constructors accept, 0 included
InitAnyCap == InitWith(0..MaxCap, 1..MaxFreq)

\* history of accesses: k becomes the most recently accessed key
Touch(s, k) == <<k>> \o SelectSeq(s, LAMBDA x : x # k)

\* the resident keys whose item is below the promotion threshold
Probationary(m) == {m.node[e[2]].key : e \in {d \in m.map : m.node[d[2]].freq < freq}}

\* the first-insertion history keeps the keys that are still probationary
KeepProbationary(s, m) ==
  IF s = <<>> THEN s
  ELSE LET p == Probationary(m) IN SelectSeq(s, LAMBDA x : x \in p)

\* a call returns: call.m is the memory it leaves, call.ret what it returns;
\* acc: the call was an access to k (an insert, or a get that hit); was: the
\* keys resident when the call was entered
Return(call, o, k, v, acc) ==
  \E r \in {call}, was \in {IF pc = Idle THEN Resident(Mem) ELSE pc.was} :
  \E now \in {Resident(r.m)} :
  /\ node' = r.m.node /\ lists' = r.m.lists /\ map' = r.m.map
  /\ live' = r.m.live /\ fault' = r.m.fault
  /\ last' = [op |-> o, l |-> "", k |-> k, v |-> v, ret |-> r.ret, out |-> was \ now,
              f |-> IF k \in Resident(Mem) THEN node[map_get(Mem, k)].freq ELSE 0]
  /\ pc' = Idle
  /\ written' = [j \in Keys |-> IF j \notin now THEN None
                                 ELSE IF o = "insert" /\ j = k THEN v ELSE written[j]]
  /\ order' = IF kind = "lru"
                THEN SelectSeq(IF acc THEN Touch(order, k) ELSE order,
                               LAMBDA x : x \in now)
                ELSE order
  /\ seen' = IF kind = "lruk"
               THEN KeepProbationary(IF o = "insert" /\ k \notin was
                                       THEN Append(seen, k) ELSE seen, r.m)
               ELSE seen
  /\ UNCHANGED <<kind, cap, freq>>

\* a call is made on the cache that was constructed, while the program runs
\* and no other call is running
CanCall(kd) == kind = kd /\ fault = "none" /\ pc = Idle

LRUGet(k) ==
  /\ CanCall("lru")
  /\ Return(LRUCache_get(Mem, k), "get", k, None, map_get(Mem, k) # Null)

LRUInsert(k, v) ==
  /\ CanCall("lru")
  /\ Return(LRUCache_insert(Mem, k, v), "insert", k, v, TRUE)

LRURemove(k) ==
  /\ CanCall("lru")
  /\ Return(LRUCache_remove(Mem, k), "remove", k, None, FALSE)

LRUkGet(k) ==
  /\ CanCall("lruk")
  /\ Return(LRUkCache_get(Mem, k), "get", k, None, map_get(Mem, k) # Null)

LRUkInsert(k, v) ==
  /\ CanCall("lruk")
  /\ Return(LRUkCache_insert(Mem, k, v), "insert", k, v, TRUE)

LRUkRemove(k) ==
  /\ CanCall("lruk")
  /\ Return(LRUkCache_remove(Mem, k), "remove", k, None, FALSE)

Next ==
  \/ \E k \in Keys : LRUGet(k)
  \/ \E k \in Keys, v \in Vals : LRUInsert(k, v)
  \/ \E k \in Keys : LRURemove(k)
  \/ \E k \in Keys : LRUkGet(k)
  \/ \E k \in Keys, v \in Vals : LRUkInsert(k, v)
  \/ \E k \in Keys : LRUkRemove(k)

Spec == Init /\ [][Next]_vars

SpecAnyCap == InitAnyCap /\ [][Next]_vars

\* every threshold with_capacity_freq accepts, 0 included
InitAnyFreq == InitWith(1..MaxCap, 0..MaxFreq)

SpecAnyFreq == InitAnyFreq /\ [][Next]_vars

\* ------------------------------------------------------------------------
\* views of the memory
\* ------------------------------------------------------------------------

RECURSIVE Walk(_, _, _)
Walk(m, n, fuel) ==
  IF n = Null \/ fuel = 0 THEN <<>> ELSE <<n>> \o Walk(m, m.node[n].next, fuel - 1)

\* the addresses linked from the head of list l, following next
Chain(m, l) == Walk(m, m.lists[l].head, Cardinality(Nodes) + 1)

RECURSIVE WalkElements(_, _, _)
WalkElements(m, n, fuel) ==
  IF n = Null \/ fuel = 0 THEN <<>>
  ELSE <<[key |-> m.node[n].key, value |-> m.node[n].value, freq |-> m.node[n].freq]>>
       \o WalkElements(m, m.node[n].next, fuel - 1)

RECURSIVE WalkKeys(_, _, _)
WalkKeys(m, n, fuel) ==
  IF n = Null \/ fuel = 0 THEN <<>>
  ELSE <<m.node[n].key>> \o WalkKeys(m, m.node[n].next, fuel - 1)

\* the elements / the keys held by list l, head first
Elements(m, l) == WalkElements(m, m.lists[l].head, Cardinality(Nodes) + 1)

KeySeq(m, l) == WalkKeys(m, m.lists[l].head, Cardinality(Nodes) + 1)

Without(s, k) == SelectSeq(s, LAMBDA x : x # k)

WithoutKey(s, k) == SelectSeq(s, LAMBDA x : x.key # k)

Range(s) == {s[i] : i \in 1..Len(s)}

\* the value / the frequency counter stored for a resident key
ValueOf(m, k) == m.node[map_get(m, k)].value

FreqOf(m, k) == m.node[map_get(m, k)].freq

\* the lists of the cache that was constructed
OwnLists == IF kind = "lru" THEN {"list"} ELSE {"fcfo", "lru"}

RECURSIVE SumLen(_, _)
SumLen(m, ls) ==
  IF ls = {} THEN 0
  ELSE LET l == CHOOSE x \in ls : TRUE IN m.lists[l].len + SumLen(m, ls \ {l})

RECURSIVE SumChain(_, _)
SumChain(m, ls) ==
  IF ls = {} THEN 0
  ELSE LET l == CHOOSE x \in ls : TRUE IN Len(Chain(m, l)) + SumChain(m, ls \ {l})

\* ------------------------------------------------------------------------
\* a program that uses List alone (as tests::test_list_splice does): two
\* lists, kept in the slots fcfo and lru, and the calls made on them.  The
\* elements pushed are distinct; a handle passed to a call is a node of the
\* list it is passed for, and dst_node is None only for an empty list.
\* ------------------------------------------------------------------------

TwoLists == {"fcfo", "lru"}

\* the list that is not l
Other(l) == CHOOSE s \in TwoLists : s # l

\* the handles of the nodes of list l
Handles(m, l) == Range(Chain(m, l))

ListInit ==
  /\ kind = "list" /\ cap = 0 /\ freq = 0
  /\ map = NewMem.map /\ lists = NewMem.lists
  /\ node = NewMem.node /\ live = NewMem.live /\ fault = NewMem.fault
  /\ last = NoCall
  /\ pc = Idle
  /\ written = [k \in Keys |-> None]
  /\ order = <<>>
  /\ seen = <<>>

\* a call of List returns: m2 is the memory it leaves
ListReturn(m2, o, l, k, v, ret) ==
  /\ node' = m2.node /\ lists' = m2.lists /\ live' = m2.live /\ fault' = m2.fault
  /\ last' = [op |-> o, l |-> l, k |-> k, v |-> v, ret |-> ret, out |-> {}, f |-> 0]
  /\ UNCHANGED <<kind, cap, freq, map, pc, written, order, seen>>

\* list l is empty (no head, no tail, len 0) or one acyclic chain of live nodes
\* from head to tail, linked both ways, with len the number of chained nodes
WellFormed(m, l) ==
  LET c == Chain(m, l) IN
  \/ m.lists[l] = List_new
  \/ /\ m.lists[l].head # Null /\ m.lists[l].tail # Null
     /\ Cardinality(Range(c)) = Len(c)
     /\ Range(c) \subseteq m.live
     /\ m.lists[l].len = Len(c)
     /\ c[Len(c)] = m.lists[l].tail
     /\ m.node[m.lists[l].head].prev = Null
     /\ m.node[m.lists[l].tail].next = Null
     /\ \A i \in 1..(Len(c) - 1) : m.node[c[i + 1]].prev = c[i]

\* a call is made while the program runs.  The calls are followed up to the
\* first state in which a list is not well-formed: from there on "the nodes of
\* a list" are not defined any more, and len can grow without bound.
CanCallList ==
  /\ kind = "list" /\ fault = "none" /\ pc = Idle
  /\ \A l \in TwoLists : WellFormed(Mem, l)

ListPushFront(l, k) ==
  /\ CanCallList /\ k \in Nodes \ live
  /\ ListReturn(push_front(Mem, l, k, k), "push_front", l, k, k, None)

ListPushBack(l, k) ==
  /\ CanCallList /\ k \in Nodes \ live
  /\ ListReturn(push_back(Mem, l, k, k), "push_back", l, k, k, None)

ListPopFront(l) ==
  /\ CanCallList
  /\ ListReturn(pop_front(Mem, l).m, "pop_front", l, 0, None, pop_front(Mem, l).ret)

ListPopBack(l) ==
  /\ CanCallList
  /\ ListReturn(pop_back(Mem, l).m, "pop_back", l, 0, None, pop_back(Mem, l).ret)

ListRemoveNode(l, n) ==
  /\ CanCallList /\ n \in Handles(Mem, l)
  /\ ListReturn(remove_node(Mem, l, n).m, "remove_node", l, n, None,
                remove_node(Mem, l, n).ret)

\* l.splice_front(dst, &mut Other(l), n)
ListSpliceFront(l, dst, n) ==
  /\ CanCallList /\ n \in Handles(Mem, Other(l))
  /\ IF dst = Null THEN Handles(Mem, l) = {} ELSE dst \in Handles(Mem, l)
  /\ ListReturn(splice_front(Mem, l, dst, Other(l), n), "splice_front", l, n, dst, None)

\* l.splice_back(dst, &mut Other(l), n)
ListSpliceBack(l, dst, n) ==
  /\ CanCallList /\ n \in Handles(Mem, Other(l))
  /\ IF dst = Null THEN Handles(Mem, l) = {} ELSE dst \in Handles(Mem, l)
  /\ ListReturn(splice_back(Mem, l, dst, Other(l), n), "splice_back", l, n, dst, None)

\* l.splice_self_front(dst, n)
ListSpliceSelfFront(l, dst, n) ==
  /\ CanCallList /\ n \in Handles(Mem, l) /\ dst \in Handles(Mem, l)
  /\ ListReturn(splice_self_front(Mem, l, dst, n), "splice_self_front", l, n, dst, None)

ListNext ==
  \/ \E l \in TwoLists, k \in Keys : ListPushFront(l, k)
  \/ \E l \in TwoLists, k \in Keys : ListPushBack(l, k)
  \/ \E l \in TwoLists : ListPopFront(l)
  \/ \E l \in TwoLists : ListPopBack(l)
  \/ \E l \in TwoLists, n \in Nodes : ListRemoveNode(l, n)
  \/ \E l \in TwoLists, dst \in Nodes \cup {Null}, n \in Nodes : ListSpliceFront(l, dst, n)
  \/ \E l \in TwoLists, dst \in Nodes \cup {Null}, n \in Nodes : ListSpliceBack(l, dst, n)
  \/ \E l \in TwoLists, dst \in Nodes, n \in Nodes : ListSpliceSelfFront(l, dst, n)

SpecList == ListInit /\ [][ListNext]_vars

\* sequence s with x put immediately before / after its entry d
InsertBefore(s, d, x) ==
  LET i == CHOOSE j \in 1..Len(s) : s[j] = d
  IN SubSeq(s, 1, i - 1) \o <<x>> \o SubSeq(s, i, Len(s))

InsertAfter(s, d, x) ==
  LET i == CHOOSE j \in 1..Len(s) : s[j] = d
  IN SubSeq(s, 1, i) \o <<x>> \o SubSeq(s, i + 1, Len(s))

\* the elements stored in the nodes are the same in m and m2
SameElements(m, m2) ==
  \A x \in Nodes : /\ m2.node[x].key = m.node[x].key
                    /\ m2.node[x].value = m.node[x].value
                    /\ m2.node[x].freq = m.node[x].freq

\* ------------------------------------------------------------------------
\* the caches again, with the eviction of an insert and the removal of a
\* remove taken statement by statement: erase the index entry, release the
\* node, (insert only) store the new item.  Every other call runs at once.
\* ------------------------------------------------------------------------

\* mutant: the entry of the item to evict is left in the index
LRUCache_insert_erase_skip(m) == m

\* LRUCache::insert, `if let Some(e) = self.list.back() { self.map.remove(&e.key); }`
LRUCache_insert_erase(m) ==
  LET e == back(m, "list")
  IN IF e # Null THEN map_remove(Deref(m, e), m.node[e].key) ELSE m

\* LRUCache::insert, `self.list.pop_back();`
LRUCache_insert_release(m) == pop_back(m, "list").m

\* LRUCache::insert, push_front and map.insert of the new item
LRUCache_insert_store(m, k, v) ==
  LET m2 == push_front(m, "list", k, v)
  IN [m |-> map_insert(m2, begin_node(m2, "list")), ret |-> None]

\* LRUCache::remove, `self.map.remove(k)`
LRUCache_remove_erase(m, k) == map_remove(m, k)

\* LRUCache::remove, `self.list.remove_node(node).value`
LRUCache_remove_release(m, n) == remove_node(m, "list", n)

\* LRUkCache::disuse: the item it picks, Null when the `?` on front()/back()
\* returns
LRUkCache_disuse_item(m) ==
  IF ~is_empty(m, "fcfo") THEN front(m, "fcfo") ELSE back(m, "lru")

\* LRUkCache::disuse, `self.map.remove(&item.key)?`
LRUkCache_disuse_erase(m) ==
  LET item == LRUkCache_disuse_item(m)
  IN IF item = Null THEN m ELSE map_remove(Deref(m, item), m.node[item].key)

\* LRUkCache::disuse, `self.fcfo.pop_front()?` / `self.lru.pop_back()?`
LRUkCache_disuse_release(m) ==
  IF ~is_empty(m, "fcfo") THEN pop_front(m, "fcfo").m ELSE pop_back(m, "lru").m

\* LRUkCache::insert, push_back and map.insert of the new item
LRUkCache_insert_store(m, k, v) ==
  LET m2 == push_back(m, "fcfo", k, v)
  IN [m |-> map_insert(m2, end_node(m2, "fcfo")), ret |-> None]

\* LRUkCache::remove, `self.map.remove(k)?`
LRUkCache_remove_erase(m, k) == map_remove(m, k)

\* LRUkCache::remove, the remove_node on the list picked from the counter
LRUkCache_remove_release(m, n) ==
  LET m1 == Deref(m, n) IN
  IF m1.node[n].freq >= freq
    THEN remove_node(m1, "lru", n)
    ELSE remove_node(m1, "fcfo", n)

\* a statement of a running call has been executed: m2 is the memory it leaves
Step(m2, at, k, v, n, was) ==
  /\ node' = m2.node /\ lists' = m2.lists /\ map' = m2.map
  /\ live' = m2.live /\ fault' = m2.fault
  /\ pc' = [at |-> at, k |-> k, v |-> v, n |-> n, was |-> was]
  /\ last' = NoCall
  /\ UNCHANGED <<kind, cap, freq, written, order, seen>>

\* the call goes on with its next statement
Running(kd, at) == kind = kd /\ fault = "none" /\ pc.at = at

\* insert(k, ..) is of a new key and has to make room first
NeedsRoom(k) == map_get(Mem, k) = Null /\ Cardinality(map) + 1 > cap

LRUInsertAtOnce(k, v) == ~NeedsRoom(k) /\ LRUInsert(k, v)

LRUInsertErase(k, v) ==
  /\ CanCall("lru") /\ NeedsRoom(k)
  /\ Step(LRUCache_insert_erase(Mem), "release", k, v, back(Mem, "list"), Resident(Mem))

LRUInsertRelease ==
  /\ Running("lru", "release")
  /\ Step(LRUCache_insert_release(Mem), "store", pc.k, pc.v, Null, pc.was)

LRUInsertStore ==
  /\ Running("lru", "store")
  /\ Return(LRUCache_insert_store(Mem, pc.k, pc.v), "insert", pc.k, pc.v, TRUE)

LRURemoveMiss(k) == map_get(Mem, k) = Null /\ LRURemove(k)

LRURemoveErase(k) ==
  /\ CanCall("lru") /\ map_get(Mem, k) # Null
  /\ Step(LRUCache_remove_erase(Mem, k), "unlink", k, None, map_get(Mem, k), Resident(Mem))

LRURemoveRelease ==
  /\ Running("lru", "unlink")
  /\ Return(LRUCache_remove_release(Mem, pc.n), "remove", pc.k, None, FALSE)

LRUkInsertAtOnce(k, v) == ~NeedsRoom(k) /\ LRUkInsert(k, v)

\* disuse returns at once when it finds no item or no index entry for it
LRUkInsertErase(k, v) ==
  /\ CanCall("lruk") /\ NeedsRoom(k)
  /\ Step(LRUkCache_disuse_erase(Mem),
          IF LRUkCache_disuse_item(Mem) # Null
             /\ map_get(Mem, node[LRUkCache_disuse_item(Mem)].key) # Null
            THEN "release" ELSE "store",
          k, v, LRUkCache_disuse_item(Mem), Resident(Mem))

LRUkInsertRelease ==
  /\ Running("lruk", "release")
  /\ Step(LRUkCache_disuse_release(Mem), "store", pc.k, pc.v, Null, pc.was)

LRUkInsertStore ==
  /\ Running("lruk", "store")
  /\ Return(LRUkCache_insert_store(Mem, pc.k, pc.v), "insert", pc.k, pc.v, TRUE)

LRUkRemoveMiss(k) == map_get(Mem, k) = Null /\ LRUkRemove(k)

LRUkRemoveErase(k) ==
  /\ CanCall("lruk") /\ map_get(Mem, k) # Null
  /\ Step(LRUkCache_remove_erase(Mem, k), "unlink", k, None, map_get(Mem, k), Resident(Mem))

LRUkRemoveRelease ==
  /\ Running("lruk", "unlink")
  /\ Return(LRUkCache_remove_release(Mem, pc.n), "remove", pc.k, None, FALSE)

StepsNext ==
  \/ \E k \in Keys : LRUGet(k)
  \/ \E k \in Keys, v \in Vals : LRUInsertAtOnce(k, v)
  \/ \E k \in Keys, v \in Vals : LRUInsertErase(k, v)
  \/ LRUInsertRelease
  \/ LRUInsertStore
  \/ \E k \in Keys : LRURemoveMiss(k)
  \/ \E k \in Keys : LRURemoveErase(k)
  \/ LRURemoveRelease
  \/ \E k \in Keys : LRUkGet(k)
  \/ \E k \in Keys, v \in Vals : LRUkInsertAtOnce(k, v)
  \/ \E k \in Keys, v \in Vals : LRUkInsertErase(k, v)
  \/ LRUkInsertRelease
  \/ LRUkInsertStore
  \/ \E k \in Keys : LRUkRemoveMiss(k)
  \/ \E k \in Keys : LRUkRemoveErase(k)
  \/ LRUkRemoveRelease

SpecSteps == Init /\ [][StepsNext]_vars

\* the statements of an eviction and of a removal, run one after the other,
\* leave what the call leaves when it runs at once
StepsAgree ==
  /\ kind = "lru" => \A k \in Keys :
        /\ \A v \in Vals : NeedsRoom(k) =>
             LRUCache_insert(Mem, k, v) =
               LRUCache_insert_store(
                 LRUCache_insert_release(LRUCache_insert_erase(Mem)), k, v)
        /\ map_get(Mem, k) # Null =>
             LRUCache_remove(Mem, k) =
               LRUCache_remove_release(LRUCache_remove_erase(Mem, k), map_get(Mem, k))
  /\ kind = "lruk" => \A k \in Keys :
        /\ \A v \in Vals : NeedsRoom(k) =>
             LRUkCache_insert(Mem, k, v) =
               LRUkCache_insert_store(
                 LRUkCache_disuse_release(LRUkCache_disuse_erase(Mem)), k, v)
        /\ map_get(Mem, k) # Null =>
             LRUkCache_remove(Mem, k) =
               LRUkCache_remove_release(LRUkCache_remove_erase(Mem, k), map_get(Mem, k))

\* ------------------------------------------------------------------------
\* C1
\* ------------------------------------------------------------------------

\* C1: in a cache built with a positive capacity, after every call has returned
\* the number of entries held (the size of the index, which equals the sum of
\* the list lengths and the number of linked nodes) is at most cap.
C1_CapacityInvariant ==
  cap > 0 =>
    /\ Cardinality(map) <= cap
    /\ Cardinality(map) = SumLen(Mem, OwnLists)
    /\ Cardinality(map) = SumChain(Mem, OwnLists)

\* an insert of a new key into a full LRU-K cache has returned after evicting
C1_Witness ==
  /\ kind = "lruk" /\ cap > 0
  /\ last.op = "insert" /\ last.ret = None /\ last.out # {}
  /\ Cardinality(map) = cap

\* ------------------------------------------------------------------------
\* C2
\* ------------------------------------------------------------------------

\* In the action properties below a step is recognised by last': every action
\* of Next records the call it makes there, so in a step that changes vars
\* last' is that call, Mem the memory it was entered with and Mem' the memory
\* it left.

\* the step is LRUCache::insert of a key that is not resident, on a full cache
C2_Step ==
  /\ kind = "lru" /\ last'.op = "insert"
  /\ last'.k \notin Resident(Mem)
  /\ Cardinality(map) = cap

C2_Post ==
  /\ order # <<>>
  /\ last'.out = {order[Len(order)]}
  /\ Resident(Mem') = (Resident(Mem) \ {order[Len(order)]}) \cup {last'.k}
  /\ \A j \in Resident(Mem) \ {order[Len(order)]} : ValueOf(Mem', j) = ValueOf(Mem, j)
  /\ ValueOf(Mem', last'.k) = last'.v

C3_Step ==
  /\ kind = "lruk" /\ last'.op = "insert"
  /\ last'.k \notin Resident(Mem)
  /\ Cardinality(map) >= cap

C3_Post ==
  /\ KeySeq(Mem, "fcfo") # <<>> =>
       /\ last'.out = {Head(KeySeq(Mem, "fcfo"))}
       /\ seen # <<>> /\ Head(seen) = Head(KeySeq(Mem, "fcfo"))
       /\ KeySeq(Mem', "fcfo") = Tail(KeySeq(Mem, "fcfo")) \o <<last'.k>>
       /\ Elements(Mem', "lru") = Elements(Mem, "lru")
  /\ KeySeq(Mem, "fcfo") = <<>> =>
       /\ KeySeq(Mem, "lru") # <<>>
       /\ last'.out = {KeySeq(Mem, "lru")[Len(KeySeq(Mem, "lru"))]}
       /\ KeySeq(Mem', "lru") = SubSeq(KeySeq(Mem, "lru"), 1, Len(KeySeq(Mem, "lru")) - 1)
       /\ KeySeq(Mem', "fcfo") = <<last'.k>>
  /\ last'.out \cap Range(KeySeq(Mem, "lru")) # {} => Probationary(Mem) = {}

\* C3: in an LRU-K cache at capacity, insert of a non-resident key evicts the
\* front of the probationary list (the oldest first-seen probationary item,
\* whatever its counter) whenever that list is non-empty, and the tail of the
\* promoted list only when the probationary list is empty; no promoted item is
\* evicted while a probationary item is resident.
C3_ProbationaryEvictedFirst == [][C3_Step => C3_Post]_vars

\* such an insert has evicted a probationary item and a promoted item stayed
C3_Witness ==
  /\ kind = "lruk"
  /\ last.op = "insert" /\ last.ret = None /\ last.out # {}
  /\ KeySeq(Mem, "lru") # <<>>
  /\ KeySeq(Mem, "fcfo") = <<last.k>>

\* ------------------------------------------------------------------------
\* C4
\* ------------------------------------------------------------------------

\* the step is a hit (a get hit or an insert of a resident key) in LRUkCache
LRUkHitStep ==
  /\ kind = "lruk"
  /\ last'.op \in {"get", "insert"}
  /\ last'.k \in Resident(Mem)

\* the step is LRUkCache::insert of a key that is not resident
LRUkNewStep ==
  /\ kind = "lruk" /\ last'.op = "insert"
  /\ last'.k \notin Resident(Mem)

C4_HitPost ==
  /\ last'.k \in Range(KeySeq(Mem, "fcfo"))
  /\ FreqOf(Mem', last'.k) = FreqOf(Mem, last'.k) + 1
  /\ FreqOf(Mem, last'.k) + 1 < freq =>
       /\ KeySeq(Mem', "fcfo") = KeySeq(Mem, "fcfo")
       /\ KeySeq(Mem', "lru") = KeySeq(Mem, "lru")
  /\ FreqOf(Mem, last'.k) + 1 = freq =>
       /\ KeySeq(Mem', "fcfo") = Without(KeySeq(Mem, "fcfo"), last'.k)
       /\ KeySeq(Mem', "lru") = <<last'.k>> \o KeySeq(Mem, "lru")

C4_NewPost ==
  /\ FreqOf(Mem', last'.k) = 0
  /\ last'.k \in Range(KeySeq(Mem', "fcfo"))
  /\ last'.k \notin Range(KeySeq(Mem', "lru"))

\* C4: with K >= 1 a newly inserted item starts in the probationary list with
\* counter 0; each hit on an item whose counter is below K raises the counter
\* by exactly one; the item stays where it is in the probationary list while
\* the counter stays below K (its first K-1 hits), and the hit that makes the
\* counter K (the K-th) moves it to the front of the promoted list.
C4_PromotionAtKthHit ==
  [][/\ (LRUkHitStep /\ FreqOf(Mem, last'.k) < freq) => C4_HitPost
     /\ LRUkNewStep => C4_NewPost]_vars

\* with K = 2, the second hit on an item has just promoted it
C4_Witness ==
  /\ kind = "lruk" /\ freq = 2
  /\ last.op = "get" /\ last.ret # None /\ last.f = 1
  /\ KeySeq(Mem, "lru") # <<>> /\ Head(KeySeq(Mem, "lru")) = last.k
  /\ FreqOf(Mem, last.k) = 2

\* ------------------------------------------------------------------------
\* C5
\* ------------------------------------------------------------------------

\* C5: constructing a cache with capacity 0 is rejected at construction time:
\* no cache with capacity 0 exists that accepts an insert.
C5_ZeroCapacityRejected ==
  ~(cap = 0 /\ last.op = "insert" /\ last.k \in Resident(Mem))

\* ------------------------------------------------------------------------
\* C6
\* ------------------------------------------------------------------------

C6_Post ==
  LET m0 == Mem
      m1 == Mem'
      lru0 == KeySeq(m0, "lru")
      lru1 == KeySeq(m1, "lru")
      fcfo1 == KeySeq(m1, "fcfo")
      res1 == Resident(m1)
  IN /\ \A j \in (IF lists["lru"].head = Null THEN {} ELSE Range(lru0)) :
          j \in res1 => /\ j \in Range(lru1)
                        /\ j \notin Range(fcfo1)
                        /\ FreqOf(m1, j) = FreqOf(m0, j)
     /\ (LRUkHitStep /\ last'.k \in Range(lru0)) =>
          /\ lru1 = <<last'.k>> \o Without(lru0, last'.k)
          /\ fcfo1 = KeySeq(m0, "fcfo")
          /\ \A j \in Resident(m0) : FreqOf(m1, j) = FreqOf(m0, j)
     /\ \A e \in map' : node'[e[2]].freq <= freq

\* C6: in an LRU-K cache an item of the promoted list stays in the promoted
\* list, and out of the probationary list, for as long as it is resident; a
\* get hit or insert of its key only moves it to the front of the promoted list
\* and changes no frequency counter, and no counter ever exceeds K.
C6_PromotionOneWay == [][kind = "lruk" => C6_Post]_vars

\* a hit on an item that was already promoted, with another promoted item
C6_Witness ==
  /\ kind = "lruk"
  /\ last.op \in {"get", "insert"} /\ last.ret # None /\ last.f = freq
  /\ Len(KeySeq(Mem, "lru")) >= 2 /\ Head(KeySeq(Mem, "lru")) = last.k

\* ------------------------------------------------------------------------
\* C7
\* ------------------------------------------------------------------------

\* Cache::get / Cache::remove of the cache that was constructed
CacheGet(m, k) == IF kind = "lru" THEN LRUCache_get(m, k) ELSE LRUkCache_get(m, k)

CacheRemove(m, k) == IF kind = "lru" THEN LRUCache_remove(m, k) ELSE LRUkCache_remove(m, k)

\* the step is an insert of a resident key
C7_Step == last'.op = "insert" /\ last'.k \in Resident(Mem)

C7_Post ==
  /\ last'.ret = ValueOf(Mem, last'.k)
  /\ last'.ret = written[last'.k]
  /\ last'.out = {}
  /\ Resident(Mem') = Resident(Mem)
  /\ Cardinality(map') = Cardinality(map)
  /\ SumLen(Mem', OwnLists) = SumLen(Mem, OwnLists)
  /\ CacheGet(Mem', last'.k).ret = last'.v

\* C7: in both caches insert(k, v2) on a resident key whose value is v1 returns
\* v1, evicts nothing and leaves the entry count unchanged (also at capacity),
\* and a get(k) that follows at once returns v2.
C7_InsertResidentReturnsOld == [][C7_Step => C7_Post]_vars

\* an insert has replaced a different value in a full cache
C7_Witness ==
  /\ last.op = "insert" /\ last.ret # None /\ last.ret # last.v
  /\ Cardinality(map) = cap /\ cap >= 2

\* ------------------------------------------------------------------------
\* C8
\* ------------------------------------------------------------------------

C8_Post ==
  /\ last'.k \notin Resident(Mem) =>
       /\ last'.ret = None
       /\ Mem' = Mem
  /\ last'.k \in Resident(Mem) =>
       /\ last'.ret = ValueOf(Mem, last'.k)
       /\ Resident(Mem') = Resident(Mem) \ {last'.k}
       /\ \A l \in OwnLists : Elements(Mem', l) = WithoutKey(Elements(Mem, l), last'.k)
       /\ fault' = "none"
       /\ CacheRemove(Mem', last'.k).ret = None
       /\ CacheRemove(Mem', last'.k).m = Mem'

\* C8: in both caches remove(k) of a non-resident key returns the empty result
\* and leaves index, list orders, values and counters unchanged; remove(k) of a
\* resident key returns its value, makes k non-resident and leaves every other
\* entry and their relative order unchanged; a remove(k) repeated at once
\* returns the empty result.
C8_RemoveOnce == [][last'.op = "remove" => C8_Post]_vars

\* a remove has returned a value and another entry is still resident
C8_Witness ==
  /\ last.op = "remove" /\ last.ret # None /\ last.out = {last.k}
  /\ map # {}

\* ------------------------------------------------------------------------
\* C9
\* ------------------------------------------------------------------------

\* the step is LRUCache::get of a resident key
C9_Step == kind = "lru" /\ last'.op = "get" /\ last'.k \in Resident(Mem)

C9_Post ==
  /\ last'.ret = written[last'.k]
  /\ KeySeq(Mem', "list") = <<last'.k>> \o Without(KeySeq(Mem, "list"), last'.k)
  /\ \A j \in Resident(Mem) : ValueOf(Mem', j) = ValueOf(Mem, j)
  /\ Cardinality(map') = Cardinality(map)
  /\ lists'["list"].len = lists["list"].len
  /\ Head(KeySeq(Mem, "list")) = last'.k => Mem' = Mem

C10_Step == kind = "lruk" /\ last'.op = "insert" /\ last'.k \in Resident(Mem)

\* C10: in an LRU-K cache insert(k, v) of a resident key is an access exactly
\* like get(k): the memory it leaves (both list orders, every counter, the
\* index) is the memory get(k) leaves from the same state, but for k's value,
\* which is v.
C10_InsertIsAccess ==
  [][C10_Step =>
       Mem' = [LRUkCache_get(Mem, last'.k).m
                 EXCEPT !.node[map_get(Mem, last'.k)].value = last'.v]]_vars

\* an insert of a resident key has promoted it and replaced its value
C10_Witness ==
  /\ kind = "lruk"
  /\ last.op = "insert" /\ last.ret # None /\ last.ret # last.v
  /\ last.f = freq - 1
  /\ KeySeq(Mem, "lru") # <<>> /\ Head(KeySeq(Mem, "lru")) = last.k

\* ------------------------------------------------------------------------
\* C11
\* ------------------------------------------------------------------------

\* C11: in an LRU-K cache with K >= 1 the probationary list holds its items in
\* the order in which they were inserted as new keys, oldest at the front (seen
\* is that history; a hit never changes it, so a hit that leaves an item below
\* the threshold moves nothing); a new key is at the back with counter 0.
C11_ProbationaryInsertionOrder ==
  (kind = "lruk" /\ freq >= 1) =>
    /\ KeySeq(Mem, "fcfo") = seen
    /\ (last.op = "insert" /\ last.ret = None) =>
         /\ KeySeq(Mem, "fcfo") # <<>>
         /\ KeySeq(Mem, "fcfo")[Len(KeySeq(Mem, "fcfo"))] = last.k
         /\ FreqOf(Mem, last.k) = 0

\* a hit has left the oldest of two probationary items below the threshold
C11_Witness ==
  /\ kind = "lruk" /\ freq >= 2
  /\ last.op \in {"get", "insert"} /\ last.ret # None /\ last.f = 0
  /\ Len(KeySeq(Mem, "fcfo")) = 2 /\ Head(KeySeq(Mem, "fcfo")) = last.k
  /\ FreqOf(Mem, last.k) = 1

\* ------------------------------------------------------------------------
\* C12
\* ------------------------------------------------------------------------

\* Cache::is_emtpy of the cache that was constructed
CacheIsEmtpy(m) == IF kind = "lru" THEN LRUCache_is_emtpy(m) ELSE LRUkCache_is_emtpy(m)

\* C12: in both caches is_emtpy() is true iff no key is resident (get misses on
\* every key, no key has a value written and not yet evicted or removed), and
\* the index and the lists agree on emptiness.
C12_EmptinessAgreement ==
  /\ CacheIsEmtpy(Mem) <=> (\A k \in Keys : CacheGet(Mem, k).ret = None)
  /\ CacheIsEmtpy(Mem) <=> (\A k \in Keys : written[k] = None)
  /\ (map = {}) <=> (\A l \in OwnLists : is_empty(Mem, l))
  /\ (map = {}) <=> (\A l \in OwnLists : Chain(Mem, l) = <<>>)

\* the last entry has been removed: the cache is empty again
C12_Witness ==
  /\ last.op = "remove" /\ last.ret # None
  /\ CacheIsEmtpy(Mem)

\* ------------------------------------------------------------------------
\* C13
\* ------------------------------------------------------------------------

\* the step is a get of a key that is not resident
C13_Step == last'.op = "get" /\ last'.k \notin Resident(Mem)

\* C13: in both caches get(k) of a non-resident key returns the empty result
\* and changes nothing: index, links, heads, tails and lengths of every list,
\* values and counters are as before the call.
C13_GetMissChangesNothing ==
  [][C13_Step => (last'.ret = None /\ Mem' = Mem /\ written' = written)]_vars

\* a get has missed in a cache that holds other keys
C13_Witness ==
  /\ last.op = "get" /\ last.ret = None
  /\ last.k \notin Resident(Mem) /\ map # {}

\* ------------------------------------------------------------------------
\* C14
\* ------------------------------------------------------------------------

\* C14: after any sequence of list operations whose handles are nodes of the
\* lists they are passed for, every list is well-formed: empty (no head, no
\* tail, len 0) or one acyclic chain from head to tail with head.prev and
\* tail.next absent and len the number of chained nodes; a head without a tail
\* or a tail without a head is never reached.
C14_ListsWellFormed ==
  kind = "list" => \A l \in TwoLists : WellFormed(Mem, l)

\* ------------------------------------------------------------------------
\* C15
\* ------------------------------------------------------------------------

\* the step is self.splice_back(dst, src, n) with dst a node of self, n a node
\* of src, both lists well-formed
C15_Step ==
  /\ kind = "list" /\ last'.op = "splice_back" /\ last'.v # Null
  /\ \A x \in TwoLists : WellFormed(Mem, x)

C15_Post ==
  LET l == last'.l
      s == Other(last'.l)
      n == last'.k
      dst == last'.v
  IN /\ Chain(Mem', l) = InsertAfter(Chain(Mem, l), dst, n)
     /\ Chain(Mem', s) = Without(Chain(Mem, s), n)
     /\ lists'[l].len = lists[l].len + 1
     /\ lists'[s].len = lists[s].len - 1
     /\ lists[l].tail = dst => lists'[l].tail = n
     /\ \A x \in TwoLists : WellFormed(Mem', x)
     /\ SameElements(Mem, Mem') /\ live' = live /\ fault' = "none"

\* C15: splice_back(dst, src, n) moves n out of src and links it into self
\* immediately after dst, for every position of dst, the tail included (n is
\* then self's tail); self.len grows by 1, src.len shrinks by 1 and the other
\* elements of both lists keep their order.
C15_SpliceBackLinksAfter == [][C15_Step => C15_Post]_vars

\* ------------------------------------------------------------------------
\* C16
\* ------------------------------------------------------------------------

\* the step is self.splice_front(dst, src, n) with n a node of src and dst a
\* node of self (none when self is empty), both lists well-formed
C16_Step ==
  /\ kind = "list" /\ last'.op = "splice_front"
  /\ \A x \in TwoLists : WellFormed(Mem, x)

C16_Post ==
  LET l == last'.l
      s == Other(last'.l)
      n == last'.k
      dst == last'.v
  IN /\ Chain(Mem', l) = IF dst = Null THEN <<n>>
                          ELSE InsertBefore(Chain(Mem, l), dst, n)
     /\ Chain(Mem', s) = Without(Chain(Mem, s), n)
     /\ lists'[l].len = lists[l].len + 1
     /\ lists'[s].len = lists[s].len - 1
     /\ (dst = Null \/ lists[l].head = dst) => lists'[l].head = n
     /\ dst = Null => lists'[l].tail = n
     /\ Chain(Mem, s) = <<n>> => is_empty(Mem', s)
     /\ \A x \in TwoLists : WellFormed(Mem', x)
     /\ SameElements(Mem, Mem') /\ live' = live /\ fault' = "none"

\* C16: splice_front(dst, src, n) moves n out of src and links it into self
\* immediately before dst (n is self's head when dst was, and self's only
\* element when dst is none and self is empty); self.len grows by 1, src.len
\* shrinks by 1, src is empty when n was its only node, and the other elements
\* of both lists keep their order.
C16_SpliceFrontLinksBefore == [][C16_Step => C16_Post]_vars

\* n, the only node of src, has been linked between two nodes of self
C16_Witness ==
  /\ kind = "list" /\ last.op = "splice_front" /\ last.v # Null
  /\ Len(Chain(Mem, last.l)) = 3 /\ Chain(Mem, last.l)[2] = last.k
  /\ Chain(Mem, last.l)[3] = last.v
  /\ is_empty(Mem, Other(last.l))

\* ------------------------------------------------------------------------
\* C20
\* ------------------------------------------------------------------------

\* the step is self.splice_self_front(dst, n), dst and n nodes of self
C20_Step ==
  /\ kind = "list" /\ last'.op = "splice_self_front"
  /\ \A x \in TwoLists : WellFormed(Mem, x)

C20_Post ==
  LET l == last'.l
      n == last'.k
      dst == last'.v
  IN /\ dst = n => Mem' = Mem
     /\ dst # n => Chain(Mem', l) = InsertBefore(Without(Chain(Mem, l), n), dst, n)
     /\ lists'[l].len = lists[l].len
     /\ lists'[Other(l)] = lists[Other(l)]
     /\ Chain(Mem', Other(l)) = Chain(Mem, Other(l))
     /\ \A x \in TwoLists : WellFormed(Mem', x)
     /\ SameElements(Mem, Mem') /\ live' = live /\ fault' = "none"

\* C20: splice_self_front(dst, n) with dst and n nodes of the list changes
\* nothing when dst and n are the same node; otherwise n is moved immediately
\* before dst, len is unchanged, the other elements keep their order and the
\* list stays well-formed (also when n is the tail or already before dst).
C20_SpliceSelfFrontMoves == [][C20_Step => C20_Post]_vars

\* n has been moved (or left) immediately before the tail of a list of three
C20_Witness ==
  /\ kind = "list" /\ last.op = "splice_self_front" /\ last.k # last.v
  /\ Len(Chain(Mem, last.l)) = 3 /\ Chain(Mem, last.l)[2] = last.k
  /\ Chain(Mem, last.l)[3] = last.v

\* ------------------------------------------------------------------------
\* C17
\* ------------------------------------------------------------------------

\* every handle in the index is a live node linked in exactly one own list
IndexHandlesLinked(m) ==
  \A e \in m.map :
    /\ e[1] \in m.live /\ e[2] \in m.live
    /\ Cardinality({l \in OwnLists : e[2] \in Handles(m, l)}) = 1

\* every linked node has exactly one index entry, under the node's own key
LinkedNodesIndexed(m) ==
  \A l \in OwnLists : \A x \in Handles(m, l) :
    /\ Cardinality({e \in m.map : e[2] = x}) = 1
    /\ \A e \in m.map : e[2] = x => m.node[e[1]].key = m.node[x].key

\* a node released by the step had no index entry when the step began
ErasedBeforeReleased ==
  \A x \in live \ live' : \A e \in map : e[1] # x /\ e[2] # x

\* C17 as stated: in every state of either cache, the states between the
\* statements of an eviction or a removal included, every index handle is a
\* live node linked in exactly one list and every linked node has exactly one
\* index entry under its own key; the entry is erased before the node is
\* released.
C17_IndexAndListsAgreeAlways ==
  [][/\ IndexHandlesLinked(Mem')
     /\ LinkedNodesIndexed(Mem')
     /\ ErasedBeforeReleased]_vars

\* C17 amended: every index handle is a live node linked in exactly one list
\* in every state, the states inside an eviction or a removal included; every
\* linked node has exactly one index entry under its own key whenever no call
\* is running (between the erase and the release the node is linked without
\* an entry); the entry is erased before the node is released.
C17_IndexSafeLinkedIndexedWhenIdle ==
  [][/\ IndexHandlesLinked(Mem')
     /\ pc'.at = "idle" => LinkedNodesIndexed(Mem')
     /\ ErasedBeforeReleased]_vars

\* inside an eviction: the entry is erased, the node not yet released
C17_Witness ==
  /\ pc.at = "release" /\ pc.n \in live
  /\ \E l \in OwnLists : pc.n \in Handles(Mem, l)
  /\ \A e \in map : e[2] # pc.n
  /\ map # {}

\* ------------------------------------------------------------------------
\* C18
\* ------------------------------------------------------------------------

\* C18: in an LRU-K cache with K >= 1 the node of a resident item is linked in
\* the promoted list iff its counter is >= K and in the probationary list iff
\* its counter is < K: the list remove and update pick from the counter is
\* the list that holds the node.
C18_CounterDecidesList ==
  (kind = "lruk" /\ freq >= 1) =>
    \A e \in map :
      /\ e[2] \in Handles(Mem, "lru") <=> node[e[2]].freq >= freq
      /\ e[2] \in Handles(Mem, "fcfo") <=> node[e[2]].freq < freq

\* a promoted item and a probationary item with a counter above 0 are resident
C18_Witness ==
  /\ kind = "lruk" /\ freq >= 2
  /\ \E e \in map : node[e[2]].freq = freq /\ e[2] \in Handles(Mem, "lru")
  /\ \E e \in map : node[e[2]].freq = freq - 1 /\ e[2] \in Handles(Mem, "fcfo")

\* ------------------------------------------------------------------------
\* C19
\* ------------------------------------------------------------------------

\* C19: the structural invariants of an LRU-K cache hold after every call for
\* every threshold the constructor accepts, 0 included: both lists are
\* well-formed, the index size is the probationary length plus the promoted
\* length, every resident node is linked in exactly one list, and no len is
\* decremented below zero.
C19_StructureForEveryThreshold ==
  kind = "lruk" =>
    /\ WellFormed(Mem, "fcfo") /\ WellFormed(Mem, "lru")
    /\ Cardinality(map) = lists["fcfo"].len + lists["lru"].len
    /\ \A e \in map : (e[2] \in Handles(Mem, "fcfo")) # (e[2] \in Handles(Mem, "lru"))
    /\ fault # "len underflow"

\* ------------------------------------------------------------------------
\* a program that uses List as a double-ended queue (as
\* tests::test_list_push_pop does): any sequence of push_front, push_back,
\* pop_front, pop_back, front, back and len on two lists.  The same element
\* may be pushed more than once.
\* ------------------------------------------------------------------------

\* the element borrowed by front() / back() through handle n (None for None)
Borrowed(m, n) == IF n = Null THEN None ELSE m.node[n].value

\* the memory after the borrow through handle n
Borrow(m, n) == IF n = Null THEN m ELSE Deref(m, n)

\* a call is made while the program runs and an address is left for a push
DequeCanCall == kind = "list" /\ fault = "none"

DequePushFront(l, x) ==
  /\ DequeCanCall /\ live # Nodes
  /\ ListReturn(push_front(Mem, l, x, x), "push_front", l, x, x, None)

DequePushBack(l, x) ==
  /\ DequeCanCall /\ live # Nodes
  /\ ListReturn(push_back(Mem, l, x, x), "push_back", l, x, x, None)

DequePopFront(l) ==
  /\ DequeCanCall
  /\ ListReturn(pop_front(Mem, l).m, "pop_front", l, 0, None, pop_front(Mem, l).ret)

DequePopBack(l) ==
  /\ DequeCanCall
  /\ ListReturn(pop_back(Mem, l).m, "pop_back", l, 0, None, pop_back(Mem, l).ret)

DequeFront(l) ==
  /\ DequeCanCall
  /\ ListReturn(Borrow(Mem, front(Mem, l)), "front", l, 0, None,
                Borrowed(Mem, front(Mem, l)))

DequeBack(l) ==
  /\ DequeCanCall
  /\ ListReturn(Borrow(Mem, back(Mem, l)), "back", l, 0, None,
                Borrowed(Mem, back(Mem, l)))

DequeNext ==
  \/ \E l \in TwoLists, x \in Vals : DequePushFront(l, x)
  \/ \E l \in TwoLists, x \in Vals : DequePushBack(l, x)
  \/ \E l \in TwoLists : DequePopFront(l)
  \/ \E l \in TwoLists : DequePopBack(l)
  \/ \E l \in TwoLists : DequeFront(l)
  \/ \E l \in TwoLists : DequeBack(l)

SpecDeque == ListInit /\ [][DequeNext]_vars

\* the values held by list l, head first
RECURSIVE WalkValues(_, _, _)
WalkValues(m, n, fuel) ==
  IF n = Null \/ fuel = 0 THEN <<>>
  ELSE <<m.node[n].value>> \o WalkValues(m, m.node[n].next, fuel - 1)

ValueSeq(m, l) == WalkValues(m, m.lists[l].head, Cardinality(Nodes) + 1)

\* ------------------------------------------------------------------------
\* C21
\* ------------------------------------------------------------------------

\* the sequence a double-ended queue holding s holds after the call, and what
\* the call returns
DequeAfter(s, call) ==
  CASE call.op = "push_front" -> <<call.k>> \o s
    [] call.op = "push_back" -> s \o <<call.k>>
    [] call.op = "pop_front" -> IF s = <<>> THEN s ELSE Tail(s)
    [] call.op = "pop_back" -> IF s = <<>> THEN s ELSE SubSeq(s, 1, Len(s) - 1)
    [] OTHER -> s

DequeReturns(s, call) ==
  CASE call.op \in {"pop_front", "front"} -> IF s = <<>> THEN None ELSE Head(s)
    [] call.op \in {"pop_back", "back"} -> IF s = <<>> THEN None ELSE s[Len(s)]
    [] OTHER -> None

C21_Post ==
  LET l == last'.l
      s == ValueSeq(Mem, l)
  IN /\ ValueSeq(Mem', l) = DequeAfter(s, last')
     /\ last'.ret = DequeReturns(s, last')
     /\ lists'[l].len = Len(DequeAfter(s, last'))
     /\ DequeAfter(s, last') = <<>> => is_empty(Mem', l)
     /\ WellFormed(Mem', l)
     /\ lists'[Other(l)] = lists[Other(l)]
     /\ ValueSeq(Mem', Other(l)) = ValueSeq(Mem, Other(l))
     /\ fault' = "none"

\* C21: a list used through push_front, push_back, pop_front, pop_back, front
\* and back behaves as a double-ended sequence: push_front prepends, push_back
\* appends, front / back return the first / last element and change nothing,
\* pop_front / pop_back remove and return it, len is the number of elements,
\* and on an empty list pops and peeks return None and leave the list empty.
C21_ListIsDeque == [][kind = "list" => C21_Post]_vars

\* a pop_back has returned the last of three elements and left two behind, the
\* first of them another element than the one returned
C21_Witness ==
  /\ kind = "list" /\ last.op = "pop_back" /\ last.ret # None
  /\ Len(ValueSeq(Mem, last.l)) = 2
  /\ ValueSeq(Mem, last.l)[1] # last.ret

\* ------------------------------------------------------------------------
\* the end of the owning scope: the two lists of a program that uses List, or
\* the fields of a cache, are dropped.  impl Drop for List runs
\* `while self.pop_back().is_some() {}`, one turn of the loop per step.  The
\* fields of a cache are dropped in the order they are declared (map, then
\* list / fcfo, then lru); the two lists of a program in either order, as it
\* declares them.  The HashMap holds raw handles only, its drop releases no
\* node.
\* ------------------------------------------------------------------------

\* the position "inside the drop of list l"
DropAt(l) ==
  CASE l = "list" -> "drop list"
    [] l = "fcfo" -> "drop fcfo"
    [] l = "lru" -> "drop lru"

\* the lists the drop glue can start with, and the number of lists to drop
DropFirst ==
  CASE kind = "lru" -> {"list"}
    [] kind = "lruk" -> {"fcfo"}
    [] OTHER -> TwoLists

DropCount == IF kind = "lru" THEN 1 ELSE 2

\* one turn of the loop of Drop::drop
List_drop_turn(m, l) == pop_back(m, l).m

\* the scope ends: the map is dropped and the drop of the first list begins
DropBegin(l) ==
  /\ pc = Idle /\ fault = "none" /\ l \in DropFirst
  /\ pc' = [Idle EXCEPT !.at = DropAt(l)]
  /\ map' = {}
  /\ last' = NoCall
  /\ UNCHANGED <<kind, cap, freq, node, lists, live, fault, written, order, seen>>

\* self.pop_back().is_some()
DropTurn(l) ==
  /\ pc.at = DropAt(l) /\ fault = "none" /\ lists[l].tail # Null
  /\ LET m2 == List_drop_turn(Mem, l)
     IN /\ node' = m2.node /\ lists' = m2.lists /\ live' = m2.live
        /\ fault' = m2.fault
  /\ UNCHANGED <<kind, cap, freq, map, last, pc, written, order, seen>>

\* self.pop_back() is None: the drop of l returns, the next list is dropped
DropEnd(l) ==
  /\ pc.at = DropAt(l) /\ fault = "none" /\ lists[l].tail = Null
  /\ pc' = IF pc.k + 1 < DropCount
             THEN [pc EXCEPT !.at = DropAt(Other(l)), !.k = @ + 1]
             ELSE [pc EXCEPT !.at = "dropped", !.k = @ + 1]
  /\ UNCHANGED <<kind, cap, freq, node, lists, map, live, fault, last, written,
                 order, seen>>

DropNext ==
  \/ Next
  \/ ListNext
  \/ \E l \in ListNames : DropBegin(l)
  \/ \E l \in ListNames : DropTurn(l)
  \/ \E l \in ListNames : DropEnd(l)

SpecDrop == (Init \/ ListInit) /\ [][DropNext]_vars

\* ------------------------------------------------------------------------
\* C22
\* ------------------------------------------------------------------------

\* the lists of the program or of the cache
AllLists == IF kind = "list" THEN TwoLists ELSE OwnLists

\* the allocated nodes
Allocated(m) == m.live

\* the nodes linked in some list
Linked(m) == UNION {Handles(m, l) : l \in AllLists}

\* C22: every node is released exactly once: no call and no drop releases a
\* node twice (or touches a node already released), after every call each
\* allocated node is linked in a list, and when the lists have been dropped
\* every node they held has been released.
C22_ReleasedExactlyOnce ==
  /\ fault \notin {"double free", "use after free"}
  /\ (pc = Idle /\ fault = "none") => Allocated(Mem) \subseteq Linked(Mem)
  /\ (pc.at = "dropped" /\ fault = "none") => Allocated(Mem) = {}

====
